---------------------------- MODULE Spec2Model ----------------------------
(***************************************************************************)
(* A model of netZooPy/panda/panda.py (class Panda).                       *)
(*                                                                         *)
(* Numbers.  The program computes in float64.  The model computes in       *)
(* fixed point: a number v is held as the integer round(v * Scale), and    *)
(* the one float64 value whose behaviour the program relies on, NaN, is    *)
(* kept as a distinct value that every operation propagates and every      *)
(* comparison answers False on, as IEEE-754 does.  Products of two numbers *)
(* are kept at Scale^2 until the operation that consumes them (a square    *)
(* root or a division) brings them back to Scale.                          *)
(*                                                                         *)
(* Matrices are sequences of rows, indexed from 1 (index k of the program  *)
(* is index k+1 of the model).                                             *)
(***************************************************************************)
EXTENDS Integers, Sequences, FiniteSets, TLC

VARIABLES
    pc,                         \* position in __init__ / panda_loop
    motif_data,                 \* self.motif_data: rows <<tf, gene, weight>>
    expression_data,            \* self.expression_data: rows <<gene, values>>
    ppi_data,                   \* self.ppi_data: rows <<tf1, tf2, weight>>
    save_memory,                \* constructor argument
    unique_tfs,                 \* self.unique_tfs
    num_tfs,                    \* self.num_tfs
    gene_names,                 \* self.gene_names
    num_genes,                  \* self.num_genes
    correlation_matrix,         \* self.correlation_matrix
    motif_matrix_unnormalized,  \* self.motif_matrix_unnormalized
    motif_matrix,               \* self.motif_matrix
    ppi_matrix,                 \* self.ppi_matrix
    step,                       \* panda_loop local
    hamming,                    \* panda_loop local
    W,                          \* panda_loop local
    export_panda_results,       \* self.export_panda_results
    entry,                      \* history: the matrices at the last test of the while condition
    arg,                        \* argument of a function called on its own
    ret                         \* its result

vars == <<pc, motif_data, expression_data, ppi_data, save_memory, unique_tfs,
          num_tfs, gene_names, num_genes, correlation_matrix,
          motif_matrix_unnormalized, motif_matrix, ppi_matrix, step, hamming,
          W, export_panda_results, entry, arg, ret>>

-----------------------------------------------------------------------------
(* Attributes of the object: absent until assigned (hasattr), or deleted.  *)

Absent == [set |-> FALSE]

Attr(v) == [set |-> TRUE, val |-> v]

-----------------------------------------------------------------------------
(* float64 as fixed point with NaN                                          *)

Scale == 5000

NaN == -1073741824

IsNaN(a) == a = NaN

\* a > b on floats: False when either is NaN
FGt(a, b) == ~IsNaN(a) /\ ~IsNaN(b) /\ a > b

\* a <= b on floats: False when either is NaN
FLe(a, b) == ~IsNaN(a) /\ ~IsNaN(b) /\ a <= b

Abs(a) == IF IsNaN(a) THEN NaN ELSE IF a < 0 THEN -a ELSE a

Add(a, b) == IF IsNaN(a) \/ IsNaN(b) THEN NaN ELSE a + b

Sub(a, b) == IF IsNaN(a) \/ IsNaN(b) THEN NaN ELSE a - b

\* the product, at the product of the two scales
Mul(a, b) == IF IsNaN(a) \/ IsNaN(b) THEN NaN ELSE a * b

\* integer division rounded to the nearest integer (b > 0)
RoundDiv(a, b) ==
    IF a >= 0 THEN (2 * a + b) \div (2 * b) ELSE -((2 * (-a) + b) \div (2 * b))

\* a / b with a at scale s*Scale and b at Scale: the quotient at scale s.
\* 0/0 is NaN; the model never divides a nonzero number by zero (the
\* denominators are square roots of sums that vanish only with numerator)
Div(a, b) ==
    IF IsNaN(a) \/ IsNaN(b) THEN NaN
    ELSE IF b = 0 THEN NaN
    ELSE IF b > 0 THEN RoundDiv(a, b) ELSE -RoundDiv(a, -b)

\* a / n for a count n
DivCount(a, n) == IF IsNaN(a) \/ n = 0 THEN NaN ELSE RoundDiv(a, n)

RECURSIVE ISqrt(_)
ISqrt(n) ==
    IF n < 2 THEN n
    ELSE LET s == 2 * ISqrt(n \div 4)
         IN  IF (s + 1) * (s + 1) <= n THEN s + 1 ELSE s

\* sqrt of a number held at Scale^2, the root at Scale; NaN below zero
Sqrt(a) == IF IsNaN(a) \/ a < 0 THEN NaN ELSE ISqrt(a)

RECURSIVE SumSeq(_)
SumSeq(s) == IF s = << >> THEN 0 ELSE Add(Head(s), SumSeq(Tail(s)))

\* math.sqrt(2)
Sqrt2 == ISqrt(2 * Scale * Scale)

RECURSIVE ExpTerms(_, _, _, _)
ExpTerms(t, x, k, acc) ==
    IF t = 0 THEN acc
    ELSE LET t2 == RoundDiv(t * x, Scale * k)
         IN  ExpTerms(t2, x, k + 1, acc + t2)

\* math.exp(x), x >= 0 at Scale, by its power series
Exp(x) == ExpTerms(Scale, x, 1, Scale)

-----------------------------------------------------------------------------
(* matrices                                                                 *)

Rows(m) == Len(m)

Cols(m) == IF m = << >> THEN 0 ELSE Len(m[1])

Matrix(r, c, F(_, _)) == [i \in 1..r |-> [j \in 1..c |-> F(i, j)]]

Transpose(m) == [j \in 1..Cols(m) |-> [i \in 1..Rows(m) |-> m[i][j]]]

Column(m, j) == [i \in 1..Rows(m) |-> m[i][j]]

Flat(m) == [k \in 1..(Rows(m) * Cols(m)) |->
               m[((k - 1) \div Cols(m)) + 1][((k - 1) % Cols(m)) + 1]]

HasNaN(m) == \E i \in 1..Rows(m) : \E j \in 1..Cols(m) : IsNaN(m[i][j])

Squares(s) == [k \in 1..Len(s) |-> Mul(s[k], s[k])]

Dot(a, b) == SumSeq([k \in 1..Len(a) |-> Mul(a[k], b[k])])

\* M[i][j] == M[j][i] for all i, j
Symmetric(m) ==
    /\ Rows(m) = Cols(m)
    /\ \A i \in 1..Rows(m) : \A j \in 1..Rows(m) : m[i][j] = m[j][i]

-----------------------------------------------------------------------------
(* panda_loop: the nested functions                                         *)

\* t_function(x): a = x.x^T, a[i][j] /= sqrt(s[j] + s[i] - |a[i][j]|),
\* s the sums of squares of the rows of x
TFunction1(x) ==
    LET a(i, j) == Dot(x[i], x[j])
        s(i) == SumSeq(Squares(x[i]))
        cell(i, j) == Div(a(i, j), Sqrt(Sub(Add(s(j), s(i)), Abs(a(i, j)))))
    IN  Matrix(Rows(x), Rows(x), cell)

\* t_function(x, y): a = x.y,
\* a[i][j] /= sqrt(colsumsq(y)[j] + rowsumsq(x)[i] - |a[i][j]|)
TFunction2(x, y) ==
    LET a(i, j) == Dot(x[i], Column(y, j))
        cy(j) == SumSeq(Squares(Column(y, j)))
        rx(i) == SumSeq(Squares(x[i]))
        cell(i, j) == Div(a(i, j), Sqrt(Sub(Add(cy(j), rx(i)), Abs(a(i, j)))))
    IN  Matrix(Rows(x), Cols(y), cell)

\* the entries of s that are not NaN
RECURSIVE DropNaN(_)
DropNaN(s) ==
    IF s = << >> THEN << >>
    ELSE IF IsNaN(Head(s)) THEN DropNaN(Tail(s))
    ELSE <<Head(s)>> \o DropNaN(Tail(s))

\* the population standard deviation of a sequence of numbers; NaN when one
\* of them is NaN, and for the empty sequence (the mean of nothing)
StdOf(v) ==
    IF v = << >> THEN NaN
    ELSE LET mean == DivCount(SumSeq(v), Len(v))
             dev == [k \in 1..Len(v) |-> Sub(v[k], mean)]
         IN  Sqrt(DivCount(SumSeq(Squares(dev)), Len(v)))

\* mutant of NanStd: np.std in place of np.nanstd, a NaN in the row making
\* the deviation NaN
NanStdPropagating(row) == StdOf(row)

\* np.nanstd(m, 1)[i]: the standard deviation of row i ignoring NaNs
NanStd(row) == StdOf(DropNaN(row))

\* np.fill_diagonal(m, d): d a function of the row index
FillDiagonal(m, d(_)) ==
    [i \in 1..Rows(m) |-> [j \in 1..Cols(m) |-> IF i = j THEN d(i) ELSE m[i][j]]]

\* diagonal_std * num * math.exp(2 * alpha * step); alpha is an / AlphaDen
DiagonalFill(std, num, an, ad, stp) ==
    LET e == Exp(RoundDiv(2 * an * stp * Scale, ad))
    IN  IF IsNaN(std) THEN NaN ELSE RoundDiv((std * num) * e, Scale)

\* update_diagonal(diagonal_matrix, num, alpha, step): the matrix as the call
\* leaves it (the program changes it in place)
UpdateDiagonal(diagonal_matrix, num, an, ad, stp) ==
    LET cleared == FillDiagonal(diagonal_matrix, LAMBDA i : NaN)
        diagonal_std(i) == NanStd(cleared[i])
        diagonal_fill(i) == DiagonalFill(diagonal_std(i), num, an, ad, stp)
    IN  FillDiagonal(cleared, diagonal_fill)

-----------------------------------------------------------------------------
(* _normalize_network                                                       *)

MeanOf(v) == DivCount(SumSeq(v), Len(v))

\* scipy.stats.zscore of a sequence: (v - mean) / std, 0/0 = NaN
ZScoreSeq(v) ==
    LET mean == MeanOf(v)
        std == StdOf(v)
    IN  [k \in 1..Len(v) |-> Div(Mul(Sub(v[k], mean), Scale), std)]

\* zscore(x, axis=0): every column standardized
ZScoreCols(x) ==
    LET z(j) == ZScoreSeq(Column(x, j))
    IN  Matrix(Rows(x), Cols(x), LAMBDA i, j : z(j)[i])

\* zscore(x, axis=1): every row standardized
ZScoreRows(x) ==
    LET z(i) == ZScoreSeq(x[i])
    IN  Matrix(Rows(x), Cols(x), LAMBDA i, j : z(i)[j])

\* (x - np.mean(x)) / np.std(x): one mean and one deviation for the matrix
ZScoreTotal(x) ==
    LET z == ZScoreSeq(Flat(x))
    IN  Matrix(Rows(x), Cols(x), LAMBDA i, j : z[(i - 1) * Cols(x) + j])

\* (a + b) / math.sqrt(2)
OverSqrt2(a) == Div(Mul(a, Scale), Sqrt2)

\* m[mask] = v[mask]
MaskAssign(m, mask(_, _), v(_, _)) ==
    Matrix(Rows(m), Cols(m), LAMBDA i, j : IF mask(i, j) THEN v(i, j) ELSE m[i][j])

\* line 185-188: the row z-scores, taken from the column z-scores when the
\* matrix is square
NormRow(x, norm_col) ==
    IF Rows(x) = Cols(x) THEN Transpose(norm_col) ELSE ZScoreRows(x)

\* mutant of BothNaNValue: the global z-score in place of the column z-score
BothNaNValueTotal(norm_col, norm_row, norm_total, i, j) ==
    OverSqrt2(Mul(2, norm_total[i][j]))

\* line 196: the value written where both z-scores are NaN
BothNaNValue(norm_col, norm_row, norm_total, i, j) ==
    OverSqrt2(Mul(2, norm_col[i][j]))

NormalizeNetwork(x) ==
    LET norm_col == ZScoreCols(x)
        norm_row == NormRow(x, norm_col)
        n0 == Matrix(Rows(x), Cols(x),
                     LAMBDA i, j : OverSqrt2(Add(norm_col[i][j], norm_row[i][j])))
        norm_total == ZScoreTotal(x)
        nan_col(i, j) == IsNaN(norm_col[i][j])
        nan_row(i, j) == IsNaN(norm_row[i][j])
        n1 == MaskAssign(n0, nan_col,
                  LAMBDA i, j : OverSqrt2(Add(norm_row[i][j], norm_total[i][j])))
        n2 == MaskAssign(n1, nan_row,
                  LAMBDA i, j : OverSqrt2(Add(norm_col[i][j], norm_total[i][j])))
    IN  MaskAssign(n2, LAMBDA i, j : nan_col(i, j) /\ nan_row(i, j),
                  LAMBDA i, j : BothNaNValue(norm_col, norm_row, norm_total, i, j))

-----------------------------------------------------------------------------
(* panda_loop: the loop                                                     *)

\* alpha = 0.1, as the fraction AlphaNum / AlphaDen
AlphaNum == 1

AlphaDen == 10

\* the 0.001 of the two tests of hamming
Threshold == Scale \div 1000

\* hamming = 1
HammingInit == Scale

\* passes the model follows a run for
MaxStep == 6

\* m *= (1 - alpha); m += alpha * w
Damped(m, w) ==
    Matrix(Rows(m), Cols(m),
           LAMBDA i, j : Add(DivCount(Mul(m[i][j], AlphaDen - AlphaNum), AlphaDen),
                             DivCount(Mul(w[i][j], AlphaNum), AlphaDen)))

\* the condition of `while hamming > 0.001`
WhileCondition(h) == FGt(h, Threshold)

\* mutant of IfCondition: the if of line 232 dropped, ppi and coexpression
\* updated in every pass
IfConditionAlways(h) == TRUE

\* the condition of `if hamming > 0.001`
IfCondition(h) == FGt(h, Threshold)

\* W = 0.5 * (t_function(ppi_matrix, motif_matrix)
\*            + t_function(motif_matrix, correlation_matrix))
ComputeW(corr, motif, ppi) ==
    LET r == TFunction2(ppi, motif)
        a == TFunction2(motif, corr)
    IN  Matrix(Rows(motif), Cols(motif),
               LAMBDA i, j : DivCount(Add(r[i][j], a[i][j]), 2))

\* np.abs(motif_matrix - W).mean()
ComputeHamming(motif, w) ==
    LET d == Matrix(Rows(motif), Cols(motif),
                    LAMBDA i, j : Abs(Sub(motif[i][j], w[i][j])))
    IN  MeanOf(Flat(d))

\* lines 234-237: ppi = t_function(motif_matrix); update_diagonal(ppi, num_tfs,
\* alpha, step); ppi_matrix *= (1 - alpha); ppi_matrix += alpha * ppi
NextPpi(ppi, motif, stp) ==
    Damped(ppi, UpdateDiagonal(TFunction1(motif), Rows(motif), AlphaNum, AlphaDen, stp))

\* mutant of NextCorrelation: step incremented before the update of
\* coexpression, so that update_diagonal is called with step + 1
NextCorrelationNextStep(corr, motif, stp) ==
    Damped(corr, UpdateDiagonal(TFunction1(Transpose(motif)), Cols(motif),
                                AlphaNum, AlphaDen, stp + 1))

\* lines 240-243: motif = t_function(motif_matrix.T); update_diagonal(motif,
\* num_genes, alpha, step); correlation_matrix *= (1 - alpha);
\* correlation_matrix += alpha * motif
NextCorrelation(corr, motif, stp) ==
    Damped(corr, UpdateDiagonal(TFunction1(Transpose(motif)), Cols(motif),
                                AlphaNum, AlphaDen, stp))

\* mutant of ExportRecords: the matrices flattened row by row (order='C')
ExportRecordsRowMajor(tfs, genes, ntfs, unnormalized, final) ==
    LET t == Len(tfs)
        g == Len(genes)
        tf(k) == tfs[((k - 1) % t) + 1]
        gene(k) == genes[((k - 1) \div ntfs) + 1]
        rowmajor(m, k) == m[((k - 1) \div Cols(m)) + 1][((k - 1) % Cols(m)) + 1]
    IN  [k \in 1..(t * g) |->
            [tf |-> tf(k), gene |-> gene(k),
             motif |-> rowmajor(unnormalized, k), force |-> rowmajor(final, k)]]

\* lines 252-258: the records of export_panda_results, in order
ExportRecords(tfs, genes, ntfs, unnormalized, final) ==
    LET t == Len(tfs)
        g == Len(genes)
        \* np.tile(unique_tfs, (len(gene_names), 1)).flatten()
        tf(k) == tfs[((k - 1) % t) + 1]
        \* np.repeat(gene_names, num_tfs)
        gene(k) == genes[((k - 1) \div ntfs) + 1]
        \* m.flatten(order='F')
        colmajor(m, k) == m[((k - 1) % Rows(m)) + 1][((k - 1) \div Rows(m)) + 1]
    IN  [k \in 1..(t * g) |->
            [tf |-> tf(k), gene |-> gene(k),
             motif |-> colmajor(unnormalized, k), force |-> colmajor(final, k)]]

\* lines 220-224
LoopInit ==
    /\ pc = "panda_loop"
    /\ step' = 0
    /\ hamming' = HammingInit
    /\ entry' = [entry EXCEPT !.motif0 = motif_matrix]
    /\ pc' = "while"
    /\ UNCHANGED <<motif_data, expression_data, ppi_data, save_memory, unique_tfs,
                   num_tfs, gene_names, num_genes, correlation_matrix,
                   motif_matrix_unnormalized, motif_matrix, ppi_matrix, W,
                   export_panda_results, arg, ret>>

\* line 225: the test of the while condition
WhileTest ==
    /\ pc = "while"
    /\ IF WhileCondition(hamming)
       THEN /\ pc' = "W"
            /\ entry' = [entry EXCEPT !.motif = motif_matrix, !.ppi = ppi_matrix,
                                      !.corr = correlation_matrix,
                                      !.passes = entry.passes + 1]
       ELSE /\ pc' = "export"
            /\ entry' = entry
    /\ UNCHANGED <<motif_data, expression_data, ppi_data, save_memory, unique_tfs,
                   num_tfs, gene_names, num_genes, correlation_matrix,
                   motif_matrix_unnormalized, motif_matrix, ppi_matrix, step,
                   hamming, W, export_panda_results, arg, ret>>

\* line 227
StepW ==
    /\ pc = "W"
    /\ W' = ComputeW(correlation_matrix, motif_matrix, ppi_matrix)
    /\ pc' = "hamming"
    /\ UNCHANGED <<motif_data, expression_data, ppi_data, save_memory, unique_tfs,
                   num_tfs, gene_names, num_genes, correlation_matrix,
                   motif_matrix_unnormalized, motif_matrix, ppi_matrix, step,
                   hamming, export_panda_results, entry, arg, ret>>

\* line 228
StepHamming ==
    /\ pc = "hamming"
    /\ hamming' = ComputeHamming(motif_matrix, W)
    /\ pc' = "motif"
    /\ UNCHANGED <<motif_data, expression_data, ppi_data, save_memory, unique_tfs,
                   num_tfs, gene_names, num_genes, correlation_matrix,
                   motif_matrix_unnormalized, motif_matrix, ppi_matrix, step, W,
                   export_panda_results, entry, arg, ret>>

\* lines 229-232: the damped update of the motif matrix, then the test of the if
StepMotif ==
    /\ pc = "motif"
    /\ motif_matrix' = Damped(motif_matrix, W)
    /\ pc' = IF IfCondition(hamming) THEN "ppi" ELSE "print"
    /\ UNCHANGED <<motif_data, expression_data, ppi_data, save_memory, unique_tfs,
                   num_tfs, gene_names, num_genes, correlation_matrix,
                   motif_matrix_unnormalized, ppi_matrix, step, hamming, W,
                   export_panda_results, entry, arg, ret>>

\* lines 234-237
StepPpi ==
    /\ pc = "ppi"
    /\ ppi_matrix' = NextPpi(ppi_matrix, motif_matrix, step)
    /\ pc' = "corr"
    /\ UNCHANGED <<motif_data, expression_data, ppi_data, save_memory, unique_tfs,
                   num_tfs, gene_names, num_genes, correlation_matrix,
                   motif_matrix_unnormalized, motif_matrix, step, hamming, W,
                   export_panda_results, entry, arg, ret>>

\* lines 240-245
StepCorrelation ==
    /\ pc = "corr"
    /\ correlation_matrix' = NextCorrelation(correlation_matrix, motif_matrix, step)
    /\ pc' = "print"
    /\ UNCHANGED <<motif_data, expression_data, ppi_data, save_memory, unique_tfs,
                   num_tfs, gene_names, num_genes, motif_matrix_unnormalized,
                   motif_matrix, ppi_matrix, step, hamming, W,
                   export_panda_results, entry, arg, ret>>

\* lines 247-248; the model follows a run for MaxStep passes
StepIncrement ==
    /\ pc = "print"
    /\ step < MaxStep
    /\ step' = step + 1
    /\ pc' = "while"
    /\ UNCHANGED <<motif_data, expression_data, ppi_data, save_memory, unique_tfs,
                   num_tfs, gene_names, num_genes, correlation_matrix,
                   motif_matrix_unnormalized, motif_matrix, ppi_matrix, hamming, W,
                   export_panda_results, entry, arg, ret>>

\* lines 252-259: after the loop
Export ==
    /\ pc = "export"
    /\ export_panda_results' =
          IF unique_tfs.set
          THEN Attr(ExportRecords(unique_tfs.val, gene_names.val, num_tfs.val,
                                  motif_matrix_unnormalized.val, motif_matrix))
          ELSE export_panda_results
    /\ pc' = "done"
    /\ UNCHANGED <<motif_data, expression_data, ppi_data, save_memory, unique_tfs,
                   num_tfs, gene_names, num_genes, correlation_matrix,
                   motif_matrix_unnormalized, motif_matrix, ppi_matrix, step,
                   hamming, W, entry, arg, ret>>

NextLoop ==
    \/ LoopInit
    \/ WhileTest
    \/ StepW
    \/ StepHamming
    \/ StepMotif
    \/ StepPpi
    \/ StepCorrelation
    \/ StepIncrement
    \/ Export

-----------------------------------------------------------------------------
(* panda_loop called on a constructed object (line 151) with given matrices *)

\* the first n labels
Labels(n) == [k \in 1..n |-> k]

Ident(n) == Matrix(n, n, LAMBDA i, j : IF i = j THEN Scale ELSE 0)

Const(r, c, v) == Matrix(r, c, LAMBDA i, j : v)

\* 1 on the diagonal and v off it
Band(n, v) == Matrix(n, n, LAMBDA i, j : IF i = j THEN Scale ELSE v)

\* 0.01 * k
Hundredths(k) == (k * Scale) \div 100

LoopMotifs ==
    { Const(2, 2, 0),
      Const(2, 2, Hundredths(3)),
      Const(2, 2, NaN),
      <<<<Hundredths(5), -Hundredths(5)>>, <<Hundredths(5), -Hundredths(5)>>>>,
      <<<<0, 0>>, <<0, Hundredths(3)>>>>,
      <<<<NaN, Hundredths(70)>>, <<-Hundredths(70), Hundredths(140)>>>>,
      <<<<Hundredths(4), 0, -Hundredths(4)>>, <<0, Hundredths(4), 0>>>>,
      <<<<Scale, 0, Scale>>, <<0, Scale, 0>>>> }

LoopPpis == { Ident(2), Const(2, 2, 0), Const(2, 2, Scale) }

LoopCorrelations(n) == { Ident(n), Band(n, Scale \div 2) }

InitLoop ==
    /\ pc = "panda_loop"
    /\ motif_matrix \in LoopMotifs
    /\ ppi_matrix \in LoopPpis
    /\ correlation_matrix \in LoopCorrelations(Cols(motif_matrix))
    /\ save_memory \in BOOLEAN
    /\ unique_tfs = IF save_memory THEN Absent ELSE Attr(Labels(Rows(motif_matrix)))
    /\ gene_names = IF save_memory THEN Absent ELSE Attr(Labels(Cols(motif_matrix)))
    /\ motif_matrix_unnormalized =
          IF save_memory THEN Absent
          ELSE Attr(Matrix(Rows(motif_matrix), Cols(motif_matrix),
                           LAMBDA i, j : IF (i + j) % 2 = 0 THEN Scale ELSE 0))
    /\ num_tfs = Attr(Rows(motif_matrix))
    /\ num_genes = Attr(Cols(motif_matrix))
    /\ motif_data = Attr(<< >>)
    /\ expression_data = Absent
    /\ ppi_data = Absent
    /\ step = 0
    /\ hamming = NaN
    /\ W = << >>
    /\ export_panda_results = Absent
    /\ entry = [motif0 |-> << >>, motif |-> << >>, ppi |-> << >>, corr |-> << >>,
                passes |-> 0]
    /\ arg = << >>
    /\ ret = << >>

Spec == InitLoop /\ [][NextLoop]_vars

-----------------------------------------------------------------------------
(* __init__: helpers                                                        *)

\* sorted(set(...)) of a set of labels
RECURSIVE SortedSeq(_)
SortedSeq(S) ==
    IF S = {} THEN << >>
    ELSE LET lo == CHOOSE x \in S : \A y \in S : x <= y
         IN  <<lo>> \o SortedSeq(S \ {lo})

\* the orders list(set(...)) can give: any order of the distinct labels
Orderings(S) ==
    {f \in [1..Cardinality(S) -> S] : \A a, b \in 1..Cardinality(S) : a # b => f[a] # f[b]}

FieldSet(rows, f) == {rows[k][f] : k \in 1..Len(rows)}

\* {x: i for i, x in enumerate(names)}.get(x, 0): the last position of x in
\* names, the first position when x is not in names
IndexOf(names, x) ==
    LET at == {k \in 1..Len(names) : names[k] = x}
    IN  IF at = {} THEN 1 ELSE CHOOSE k \in at : \A l \in at : l <= k

\* m.ravel()[np.ravel_multi_index((ri, ci), m.shape)] = v: the writes in the
\* order of the rows of the file, a later write to a cell replacing an earlier
RECURSIVE RavelAssign(_, _, _, _)
RavelAssign(m, ri, ci, v) ==
    IF ri = << >> THEN m
    ELSE RavelAssign([m EXCEPT ![Head(ri)][Head(ci)] = Head(v)],
                     Tail(ri), Tail(ci), Tail(v))

\* np.corrcoef(rows): c = cov(rows) with ddof = 1, then c /= stddev[:, None],
\* c /= stddev[None, :], clipped to [-1, 1].  The two divisions are taken as
\* one, by stddev[i] * stddev[j]: rounding to Scale between them would make
\* c[i][j] and c[j][i] differ by far more than the last bit of a float64
Corrcoef(x) ==
    LET n == Cols(x)
        dev(i) == LET mean == MeanOf(x[i]) IN [k \in 1..n |-> Sub(x[i][k], mean)]
        cov(i, j) == DivCount(Dot(dev(i), dev(j)), n - 1)
        stddev(i) == Sqrt(cov(i, i))
        clip(a) == IF IsNaN(a) THEN NaN
                   ELSE IF a > Scale THEN Scale ELSE IF a < -Scale THEN -Scale ELSE a
        cell(i, j) == clip(Div(cov(i, j), DivCount(Mul(stddev(i), stddev(j)), Scale)))
    IN  Matrix(Rows(x), Rows(x), cell)

\* lines 78-80: np.fill_diagonal(c, 1); np.nan_to_num(c) when c has a NaN
CleanCorrelation(c) ==
    IF HasNaN(c)
    THEN Matrix(Rows(c), Cols(c),
                LAMBDA i, j : IF i = j THEN Scale ELSE IF IsNaN(c[i][j]) THEN 0 ELSE c[i][j])
    ELSE c

\* lines 98-103
MotifMatrixOf(rows, tfs, genes) ==
    LET idx_tfs == [k \in 1..Len(rows) |-> IndexOf(tfs, rows[k][1])]
        idx_genes == [k \in 1..Len(rows) |-> IndexOf(genes, rows[k][2])]
        weights == [k \in 1..Len(rows) |-> rows[k][3]]
    IN  RavelAssign(Const(Len(tfs), Len(genes), 0), idx_tfs, idx_genes, weights)

\* lines 109-115
PpiMatrixOf(rows, tfs) ==
    LET idx_tf1 == [k \in 1..Len(rows) |-> IndexOf(tfs, rows[k][1])]
        idx_tf2 == [k \in 1..Len(rows) |-> IndexOf(tfs, rows[k][2])]
        weights == [k \in 1..Len(rows) |-> rows[k][3]]
        first == RavelAssign(Ident(Len(tfs)), idx_tf1, idx_tf2, weights)
    IN  RavelAssign(first, idx_tf2, idx_tf1, weights)

\* lines 261-268: __pearson_results_data_frame
PearsonRecords(genes, network) ==
    LET n == Len(genes)
        \* np.tile(gene_names, (n, 1)).flatten()
        genes_1(k) == genes[((k - 1) % n) + 1]
        \* np.tile(gene_names, (n, 1)).transpose().flatten()
        genes_2(k) == genes[((k - 1) \div n) + 1]
        \* panda_network.transpose().flatten()
        flat(k) == Transpose(network)[((k - 1) \div n) + 1][((k - 1) % n) + 1]
    IN  [k \in 1..(n * n) |-> [tf |-> genes_1(k), gene |-> genes_2(k), force |-> flat(k)]]

-----------------------------------------------------------------------------
(* __init__                                                                 *)

CtorUnchangedLoop == UNCHANGED <<step, hamming, W, entry, ret>>

\* lines 38-45
LoadMotif ==
    /\ pc = "load_motif"
    /\ motif_data' = arg.motif_file
    /\ IF arg.motif_file.set
       THEN /\ unique_tfs' = Attr(SortedSeq(FieldSet(arg.motif_file.val, 1)))
            /\ num_tfs' = Attr(Cardinality(FieldSet(arg.motif_file.val, 1)))
       ELSE UNCHANGED <<unique_tfs, num_tfs>>
    /\ pc' = "load_expression"
    /\ UNCHANGED <<expression_data, ppi_data, save_memory, gene_names, num_genes,
                   correlation_matrix, motif_matrix_unnormalized, motif_matrix,
                   ppi_matrix, export_panda_results, arg>>
    /\ CtorUnchangedLoop

\* lines 47-57; self.motif_data[1] raises TypeError when motif_data is None
LoadExpression ==
    /\ pc = "load_expression"
    /\ \/ /\ arg.expression_file.set
          /\ expression_data' = arg.expression_file
          /\ gene_names' = Attr([k \in 1..Len(arg.expression_file.val) |->
                                    arg.expression_file.val[k][1]])
          /\ num_genes' = Attr(Len(arg.expression_file.val))
          /\ pc' = "load_ppi"
       \/ /\ ~arg.expression_file.set
          /\ motif_data.set
          /\ \E order \in Orderings(FieldSet(motif_data.val, 2)) :
                /\ gene_names' = Attr(order)
                /\ num_genes' = Attr(Len(order))
          /\ expression_data' = Absent
          /\ pc' = "load_ppi"
       \/ /\ ~arg.expression_file.set
          /\ ~motif_data.set
          /\ pc' = "error"
          /\ UNCHANGED <<expression_data, gene_names, num_genes>>
    /\ UNCHANGED <<motif_data, ppi_data, save_memory, unique_tfs, num_tfs,
                   correlation_matrix, motif_matrix_unnormalized, motif_matrix,
                   ppi_matrix, export_panda_results, arg>>
    /\ CtorUnchangedLoop

\* lines 59-65; the else branch reads self.num_tfs, which line 42 alone sets
LoadPpi ==
    /\ pc = "load_ppi"
    /\ \/ /\ arg.ppi_file.set
          /\ ppi_data' = arg.ppi_file
          /\ pc' = "correlation"
       \/ /\ ~arg.ppi_file.set
          /\ num_tfs.set
          /\ ppi_data' = Absent
          /\ pc' = "correlation"
       \/ /\ ~arg.ppi_file.set
          /\ ~num_tfs.set
          /\ pc' = "error"
          /\ UNCHANGED ppi_data
    /\ UNCHANGED <<motif_data, expression_data, save_memory, unique_tfs, num_tfs,
                   gene_names, num_genes, correlation_matrix,
                   motif_matrix_unnormalized, motif_matrix, ppi_matrix,
                   export_panda_results, arg>>
    /\ CtorUnchangedLoop

\* lines 73-80
ComputeCorrelation ==
    /\ pc = "correlation"
    /\ correlation_matrix' =
          CleanCorrelation(IF expression_data.set
                           THEN Corrcoef([k \in 1..Len(expression_data.val) |->
                                             expression_data.val[k][2]])
                           ELSE Ident(num_genes.val))
    /\ pc' = "mode"
    /\ UNCHANGED <<motif_data, expression_data, ppi_data, save_memory, unique_tfs,
                   num_tfs, gene_names, num_genes, motif_matrix_unnormalized,
                   motif_matrix, ppi_matrix, export_panda_results, arg>>
    /\ CtorUnchangedLoop

\* lines 86-92: without motif data the correlation matrix is the result
CorrelationOnly ==
    /\ pc = "mode"
    /\ ~motif_data.set
    /\ export_panda_results' = Attr(PearsonRecords(gene_names.val, correlation_matrix))
    /\ pc' = "done"
    /\ UNCHANGED <<motif_data, expression_data, ppi_data, save_memory, unique_tfs,
                   num_tfs, gene_names, num_genes, correlation_matrix,
                   motif_matrix_unnormalized, motif_matrix, ppi_matrix, arg>>
    /\ CtorUnchangedLoop

\* lines 94-103
BuildMotif ==
    /\ pc = "mode"
    /\ motif_data.set
    /\ motif_matrix_unnormalized' =
          Attr(MotifMatrixOf(motif_data.val, unique_tfs.val, gene_names.val))
    /\ pc' = "build_ppi"
    /\ UNCHANGED <<motif_data, expression_data, ppi_data, save_memory, unique_tfs,
                   num_tfs, gene_names, num_genes, correlation_matrix, motif_matrix,
                   ppi_matrix, export_panda_results, arg>>
    /\ CtorUnchangedLoop

\* lines 105-115
BuildPpi ==
    /\ pc = "build_ppi"
    /\ ppi_matrix' = IF ppi_data.set
                     THEN PpiMatrixOf(ppi_data.val, unique_tfs.val)
                     ELSE Ident(num_tfs.val)
    /\ pc' = "normalize"
    /\ UNCHANGED <<motif_data, expression_data, ppi_data, save_memory, unique_tfs,
                   num_tfs, gene_names, num_genes, correlation_matrix,
                   motif_matrix_unnormalized, motif_matrix, export_panda_results, arg>>
    /\ CtorUnchangedLoop

\* lines 120-124
NormalizeNetworks ==
    /\ pc = "normalize"
    /\ correlation_matrix' = NormalizeNetwork(correlation_matrix)
    /\ motif_matrix' = NormalizeNetwork(motif_matrix_unnormalized.val)
    /\ ppi_matrix' = NormalizeNetwork(ppi_matrix)
    /\ pc' = "cleanup"
    /\ UNCHANGED <<motif_data, expression_data, ppi_data, save_memory, unique_tfs,
                   num_tfs, gene_names, num_genes, motif_matrix_unnormalized,
                   export_panda_results, arg>>
    /\ CtorUnchangedLoop

\* lines 129-151: the attributes deleted, then the call of panda_loop
CleanUp ==
    /\ pc = "cleanup"
    /\ IF save_memory
       THEN /\ unique_tfs' = Absent
            /\ gene_names' = Absent
            /\ motif_matrix_unnormalized' = Absent
       ELSE UNCHANGED <<unique_tfs, gene_names, motif_matrix_unnormalized>>
    /\ expression_data' = Absent
    /\ pc' = "panda_loop"
    /\ UNCHANGED <<motif_data, ppi_data, save_memory, num_tfs, num_genes,
                   correlation_matrix, motif_matrix, ppi_matrix,
                   export_panda_results, arg>>
    /\ CtorUnchangedLoop

NextPanda ==
    \/ LoadMotif
    \/ LoadExpression
    \/ LoadPpi
    \/ ComputeCorrelation
    \/ CorrelationOnly
    \/ BuildMotif
    \/ BuildPpi
    \/ NormalizeNetworks
    \/ CleanUp
    \/ NextLoop

-----------------------------------------------------------------------------
(* Panda(expression_file, motif_file, ppi_file, save_memory) with           *)
(* remove_missing and keep_expression_matrix left at False; save_tmp only   *)
(* writes files.  A file is the rows read from it; no file is Absent.       *)

MotifFiles ==
    { Absent,
      Attr(<<<<1, 1, Scale>>, <<1, 3, Scale>>, <<2, 2, Scale>>>>),
      Attr(<<<<1, 1, Scale>>, <<1, 2, Scale>>, <<1, 3, Scale>>, <<2, 2, Scale>>>>),
      Attr(<<<<1, 1, Scale>>, <<2, 1, 2 * Scale>>, <<2, 2, Scale>>>>),
      Attr(<<<<1, 1, Scale>>, <<1, 2, Scale>>, <<2, 1, Scale>>, <<2, 2, Scale>>>>) }

ExpressionFiles ==
    { Absent,
      Attr(<<<<1, <<Scale, 2 * Scale, 3 * Scale>>>>,
             <<2, <<2 * Scale, Scale, 3 * Scale>>>>,
             <<3, <<3 * Scale, Scale, Scale>>>>>>),
      Attr(<<<<1, <<Scale, 2 * Scale, 4 * Scale>>>>,
             <<2, <<2 * Scale, Scale, Scale>>>>>>),
      Attr(<<<<1, <<Scale, 2 * Scale, 3 * Scale>>>>,
             <<1, <<3 * Scale, Scale, 2 * Scale>>>>>>),
      Attr(<<<<1, <<Scale, Scale, Scale>>>>,
             <<2, <<Scale, 2 * Scale, 3 * Scale>>>>>>) }

PpiFiles ==
    { Absent,
      Attr(<<<<1, 2, Scale \div 2>>>>),
      Attr(<<<<1, 2, Scale \div 2>>, <<2, 1, Scale \div 4>>>>) }

InitPanda ==
    /\ pc = "load_motif"
    /\ arg \in [motif_file : MotifFiles, expression_file : ExpressionFiles,
                ppi_file : PpiFiles]
    /\ save_memory \in BOOLEAN
    /\ motif_data = Absent
    /\ expression_data = Absent
    /\ ppi_data = Absent
    /\ unique_tfs = Absent
    /\ num_tfs = Absent
    /\ gene_names = Absent
    /\ num_genes = Absent
    /\ correlation_matrix = << >>
    /\ motif_matrix_unnormalized = Absent
    /\ motif_matrix = << >>
    /\ ppi_matrix = << >>
    /\ step = 0
    /\ hamming = NaN
    /\ W = << >>
    /\ export_panda_results = Absent
    /\ entry = [motif0 |-> << >>, motif |-> << >>, ppi |-> << >>, corr |-> << >>,
                passes |-> 0]
    /\ ret = << >>

SpecPanda == InitPanda /\ [][NextPanda]_vars

-----------------------------------------------------------------------------
(* _normalize_network(x) called on its own                                  *)

\* entries of the matrices given to _normalize_network: 0 .. MaxEntry
MaxEntry == 2

NormalizeEntries == {k * Scale : k \in 0..MaxEntry}

NormalizeInputs ==
    [1..2 -> [1..2 -> NormalizeEntries]] \cup [1..2 -> [1..3 -> NormalizeEntries]]

Idle ==
    /\ motif_data = Absent
    /\ expression_data = Absent
    /\ ppi_data = Absent
    /\ save_memory = FALSE
    /\ unique_tfs = Absent
    /\ num_tfs = Absent
    /\ gene_names = Absent
    /\ num_genes = Absent
    /\ correlation_matrix = << >>
    /\ motif_matrix_unnormalized = Absent
    /\ motif_matrix = << >>
    /\ ppi_matrix = << >>
    /\ step = 0
    /\ hamming = NaN
    /\ W = << >>
    /\ export_panda_results = Absent
    /\ entry = [motif0 |-> << >>, motif |-> << >>, ppi |-> << >>, corr |-> << >>,
                passes |-> 0]
    /\ ret = << >>

InitNormalize ==
    /\ pc = "normalize_call"
    /\ arg \in NormalizeInputs
    /\ Idle

\* lines 183-197
NormalizeCall ==
    /\ pc = "normalize_call"
    /\ ret' = NormalizeNetwork(arg)
    /\ pc' = "normalize_return"
    /\ UNCHANGED <<motif_data, expression_data, ppi_data, save_memory, unique_tfs,
                   num_tfs, gene_names, num_genes, correlation_matrix,
                   motif_matrix_unnormalized, motif_matrix, ppi_matrix, step,
                   hamming, W, export_panda_results, entry, arg>>

SpecNormalize == InitNormalize /\ [][NormalizeCall]_vars

-----------------------------------------------------------------------------
(* update_diagonal(diagonal_matrix, num, alpha, step) called on its own     *)

\* num: 0 .. MaxNum
MaxNum == 2

\* step: 0 .. MaxDiagStep
MaxDiagStep == 1

DiagonalEntries == {NaN, 0, Scale}

DiagonalRows3 ==
    { <<NaN, NaN, NaN>>, <<0, NaN, Scale>>, <<Scale, 0, 2 * Scale>>, <<NaN, Scale, NaN>> }

DiagonalMatrices ==
    [1..1 -> [1..1 -> DiagonalEntries]]
        \cup [1..2 -> [1..2 -> DiagonalEntries]]
        \cup [1..3 -> DiagonalRows3]

InitDiagonal ==
    /\ pc = "update_diagonal_call"
    /\ arg \in [diagonal_matrix : DiagonalMatrices, num : 0..MaxNum,
                alpha : {0, AlphaNum}, step : 0..MaxDiagStep]
    /\ Idle

\* lines 213-218
UpdateDiagonalCall ==
    /\ pc = "update_diagonal_call"
    /\ ret' = UpdateDiagonal(arg.diagonal_matrix, arg.num, arg.alpha, AlphaDen, arg.step)
    /\ pc' = "update_diagonal_return"
    /\ UNCHANGED <<motif_data, expression_data, ppi_data, save_memory, unique_tfs,
                   num_tfs, gene_names, num_genes, correlation_matrix,
                   motif_matrix_unnormalized, motif_matrix, ppi_matrix, step,
                   hamming, W, export_panda_results, entry, arg>>

SpecDiagonal == InitDiagonal /\ [][UpdateDiagonalCall]_vars

-----------------------------------------------------------------------------
(* The claims                                                               *)

LoopStopped == pc \in {"export", "done"} /\ entry.passes >= 1

\* C1 (as claimed): whenever the loop has stopped, the hamming value of its
\* last pass satisfies hamming <= 0.001, whatever value hamming took, NaN
\* included.
C1_StopsOnlyBelowThreshold ==
    LoopStopped => FLe(hamming, Threshold)

\* the W of the pass that began from the matrices held in entry
EntryW == ComputeW(entry.corr, entry.motif, entry.ppi)

\* C2: in the terminating pass (the pass whose hamming does not exceed the
\* threshold) the damped update of motif is applied to the motif and the W of
\* the pass's entry, and ppi and coexpression keep the values they had when the
\* pass began, up to and after the exit of the loop.
C2_TerminatingPassFrame ==
    (pc \in {"print", "while", "export", "done"} /\ entry.passes >= 1
        /\ ~FGt(hamming, Threshold))
    => /\ motif_matrix = Damped(entry.motif, EntryW)
       /\ ppi_matrix = entry.ppi
       /\ correlation_matrix = entry.corr

\* C2 witness: the loop has stopped below the threshold after at least two
\* passes, and the last pass changed the motif matrix.
C2_Witness ==
    /\ pc = "done"
    /\ entry.passes >= 2
    /\ FLe(hamming, Threshold)
    /\ motif_matrix # entry.motif
    /\ ppi_matrix = entry.ppi

\* C3 (as claimed): ppi and coexpression are symmetric at all times: as built
\* from any ppi edge list and any expression input, after normalization, and
\* after every pass of the loop.
C3_SymmetricAlways ==
    Symmetric(ppi_matrix) /\ Symmetric(correlation_matrix)

\* every row of m has an entry that is not NaN
NoAllNaNRow(m) == \A i \in 1..Rows(m) : \E j \in 1..Cols(m) : ~IsNaN(m[i][j])

\* every row of m has an entry off the diagonal that is not NaN
NoAllNaNRowOffDiagonal(m) ==
    \A i \in 1..Rows(m) : \E j \in 1..Cols(m) : j # i /\ ~IsNaN(m[i][j])

NoNaNOnDiagonal(m) == \A i \in 1..Rows(m) : ~IsNaN(m[i][i])

\* C4 (as claimed): after update_diagonal on an n x n matrix none of whose rows
\* is all-NaN on entry, no diagonal entry is NaN, for every n >= 1 and every
\* num, alpha and step.
C4_Original ==
    (pc = "update_diagonal_return" /\ NoAllNaNRow(arg.diagonal_matrix))
    => NoNaNOnDiagonal(ret)

\* C4 (amended): after update_diagonal on a matrix every row of which has an
\* entry off the diagonal that is not NaN, no diagonal entry is NaN, for every
\* num, alpha and step.
C4_DiagonalNotNaN ==
    (pc = "update_diagonal_return" /\ NoAllNaNRowOffDiagonal(arg.diagonal_matrix))
    => NoNaNOnDiagonal(ret)

\* C4 witness: update_diagonal has run on a 3 x 3 matrix with NaNs on and off
\* its diagonal, every row keeping a number off the diagonal, and has written a
\* positive diagonal entry.
C4_Witness ==
    /\ pc = "update_diagonal_return"
    /\ Rows(arg.diagonal_matrix) = 3
    /\ NoAllNaNRowOffDiagonal(arg.diagonal_matrix)
    /\ \E i \in 1..3 : IsNaN(arg.diagonal_matrix[i][i])
    /\ \E i, j \in 1..3 : i # j /\ IsNaN(arg.diagonal_matrix[i][j])
    /\ \E i \in 1..3 : ret[i][i] > 0

\* (zscore(x, axis=0) + zscore(x, axis=1)) / sqrt(2)
TwoWayZScore(x) ==
    LET c == ZScoreCols(x)
        r == ZScoreRows(x)
    IN  Matrix(Rows(x), Cols(x), LAMBDA i, j : OverSqrt2(Add(c[i][j], r[i][j])))

\* no row and no column of x has zero variance
NoZeroVariance(x) == ~HasNaN(ZScoreCols(x)) /\ ~HasNaN(ZScoreRows(x))

\* C5 (as claimed): for every matrix with no zero-variance row or column,
\* _normalize_network(x) is (column z-score + row z-score) / sqrt(2) at every
\* cell, square matrices that are not symmetric included.
C5_NormalizeIsTwoWayZScore ==
    (pc = "normalize_return" /\ NoZeroVariance(arg)) => ret = TwoWayZScore(arg)

\* the records of rs that carry the labels tf and gene
RecordsOf(rs, tf, gene) == {k \in 1..Len(rs) : rs[k].tf = tf /\ rs[k].gene = gene}

PriorExported == pc = "done" /\ motif_data.set /\ export_panda_results.set

\* C6 (as claimed): with a prior and save_memory False, the edge list has
\* num_regulators * num_targets records and every (regulator, target) pair of
\* the label sequences is in exactly one record.
C6_EveryPairOnce ==
    PriorExported
    => LET rs == export_panda_results.val
       IN  /\ Len(rs) = num_tfs.val * num_genes.val
           /\ \A i \in 1..Len(unique_tfs.val) : \A j \in 1..Len(gene_names.val) :
                 Cardinality(RecordsOf(rs, unique_tfs.val[i], gene_names.val[j])) = 1

\* the record of regulator i and target j in an edge list ordered by
\* (target, regulator)
EdgeOf(rs, i, j) == rs[(j - 1) * Len(unique_tfs.val) + i]

\* C7 (as claimed): the records are ordered by (target, regulator), and the
\* record of regulator i and target j carries as prior weight the entry [i][j]
\* of the normalized motif matrix the loop started from, and as inferred weight
\* the entry [i][j] of the final motif matrix.
C7_Original ==
    PriorExported
    => \A i \in 1..Len(unique_tfs.val) : \A j \in 1..Len(gene_names.val) :
          LET r == EdgeOf(export_panda_results.val, i, j)
          IN  /\ r.tf = unique_tfs.val[i]
              /\ r.gene = gene_names.val[j]
              /\ r.motif = entry.motif0[i][j]
              /\ r.force = motif_matrix[i][j]

\* C7 (amended): the records are ordered by (target, regulator), and the record
\* of regulator i and target j carries as prior weight the entry [i][j] of the
\* motif matrix before normalization (motif_matrix_unnormalized), and as
\* inferred weight the entry [i][j] of the final motif matrix.
C7_EdgeListContent ==
    PriorExported
    => /\ Len(export_panda_results.val) = Len(unique_tfs.val) * Len(gene_names.val)
       /\ \A i \in 1..Len(unique_tfs.val) : \A j \in 1..Len(gene_names.val) :
             LET r == EdgeOf(export_panda_results.val, i, j)
             IN  /\ r.tf = unique_tfs.val[i]
                 /\ r.gene = gene_names.val[j]
                 /\ r.motif = motif_matrix_unnormalized.val[i][j]
                 /\ r.force = motif_matrix[i][j]

\* C7 witness: an edge list of a 2 x 3 prior has been built after a loop that
\* changed a motif entry, the prior not being symmetric in shape or value.
C7_Witness ==
    /\ PriorExported
    /\ Len(unique_tfs.val) = 2
    /\ Len(gene_names.val) = 3
    /\ \E i \in 1..2 : \E j \in 1..3 :
          /\ ~IsNaN(motif_matrix[i][j])
          /\ motif_matrix[i][j] # entry.motif0[i][j]
    /\ motif_matrix_unnormalized.val[1][2] # motif_matrix_unnormalized.val[2][1]

\* the cells where the column z-score and the row z-score that
\* _normalize_network uses are both NaN
BothNaN(x, i, j) ==
    /\ IsNaN(ZScoreCols(x)[i][j])
    /\ IsNaN(NormRow(x, ZScoreCols(x))[i][j])

C9_CorrelationOnlyCompletes ==
    (~arg.motif_file.set /\ arg.expression_file.set)
    => /\ pc # "error"
       /\ pc = "done"
          => LET rs == export_panda_results.val
                 g == gene_names.val
             IN  /\ Len(rs) = Len(g) * Len(g)
                 /\ \A a \in 1..Len(g) : \A b \in 1..Len(g) :
                       /\ Cardinality(RecordsOf(rs, g[a], g[b])) = 1
                       /\ \A k \in RecordsOf(rs, g[a], g[b]) :
                             rs[k].force = correlation_matrix[a][b]

\* the positions inside a pass of the loop, in the order they are taken
InPass == pc \in {"W", "hamming", "motif", "ppi", "corr", "print"}

\* the motif matrix after the damped update of the pass: from the motif held
\* at the pass's entry and the W of the pass
PassMotifUpdated == Damped(entry.motif, W)

\* the ppi matrix after the update of the k-th pass: from the matrix held at
\* the pass's entry and the motif as it is now, update_diagonal with k - 1
PassPpiUpdated ==
    Damped(entry.ppi,
           UpdateDiagonal(TFunction1(motif_matrix), Rows(motif_matrix),
                          AlphaNum, AlphaDen, entry.passes - 1))

\* the coexpression matrix after the update of the k-th pass, likewise
PassCorrelationUpdated ==
    Damped(entry.corr,
           UpdateDiagonal(TFunction1(Transpose(motif_matrix)),
                          Cols(motif_matrix), AlphaNum, AlphaDen,
                          entry.passes - 1))

\* C11: within the k-th pass of panda_loop, W is computed from the motif, ppi
\* and coexpression held at the pass's entry; hamming from the motif before
\* its damped update; then motif is updated; then, only if hamming exceeds the
\* threshold, ppi and coexpression are both updated from the already-updated
\* motif, each with update_diagonal called with step = k - 1; step starts at
\* 0 and is incremented exactly once, at the end of the pass.
C11_PassOrder ==
    /\ pc = "while" => step = entry.passes
    /\ InPass => step = entry.passes - 1
    /\ pc \in {"W", "hamming", "motif"}
          => /\ motif_matrix = entry.motif
             /\ ppi_matrix = entry.ppi
             /\ correlation_matrix = entry.corr
    /\ pc \in {"hamming", "motif", "ppi", "corr", "print"} => W = EntryW
    /\ pc \in {"motif", "ppi", "corr", "print"}
          => hamming = ComputeHamming(entry.motif, W)
    /\ pc \in {"ppi", "corr", "print"} => motif_matrix = PassMotifUpdated
    /\ pc \in {"ppi", "corr"} => FGt(hamming, Threshold)
    /\ pc = "ppi" => ppi_matrix = entry.ppi /\ correlation_matrix = entry.corr
    /\ pc = "corr"
          => ppi_matrix = PassPpiUpdated /\ correlation_matrix = entry.corr
    /\ pc = "print"
          => IF FGt(hamming, Threshold)
             THEN /\ ppi_matrix = PassPpiUpdated
                  /\ correlation_matrix = PassCorrelationUpdated
             ELSE /\ ppi_matrix = entry.ppi
                  /\ correlation_matrix = entry.corr

\* C11 witness: the end of a second or later pass whose hamming exceeded the
\* threshold and in which motif, ppi and coexpression all changed, the
\* diagonal written by update_diagonal into the coexpression update not zero.
C11_Witness ==
    /\ pc = "print"
    /\ entry.passes >= 2
    /\ FGt(hamming, Threshold)
    /\ motif_matrix # entry.motif
    /\ ppi_matrix # entry.ppi
    /\ correlation_matrix # entry.corr
    /\ LET d == UpdateDiagonal(TFunction1(Transpose(motif_matrix)),
                               Cols(motif_matrix), AlphaNum, AlphaDen, step)
       IN  \E i \in 1..Rows(d) : FGt(d[i][i], 0)

=============================================================================
